---- MODULE Spec2Model ----
(***************************************************************************)
(* react-next-theme: theme resolution and synchronisation.                 *)
(*                                                                         *)
(* The model covers the three packagings of the bootstrap script           *)
(* (src/utils/themeInitializer.js, the script text of                      *)
(* src/utils/getThemeScript.js, the script printed in README.md), the      *)
(* ThemeProvider of src/context/ThemeContext.js and the ThemeProvider      *)
(* revisions kept in unnamed/part_001 and unnamed/part_003, run by React:  *)
(* a render reads the state, setTheme queues an update that the next       *)
(* render applies, passive effects run after the render that scheduled     *)
(* them and before the next one.                                           *)
(***************************************************************************)
EXTENDS Naturals, Sequences, FiniteSets, TLC

\* What localStorage.getItem returns for a missing key, and the value of a
\* data-theme attribute that was never set.
NULL == "<null>"

\* The outcome of an expression that raised an exception.
THROWN == "<throws>"

\* const themes = { light: 'light', dark: 'dark' }
themes == [light |-> "light", dark |-> "dark"]

\* Contents of localStorage under the key 'theme': nothing, the two themes,
\* a foreign string and the empty string.
StoreValues == {NULL, "light", "dark", "blue", ""}

\* localStorage as the browser gives it: working, refused altogether (every
\* access throws SecurityError), or full (setItem throws QuotaExceededError).
StorageModes == {"ok", "denied", "full"}

\* The ThemeProvider revisions of the repository.
Variants == {"ThemeContext", "part_001", "part_003"}

\* The packagings of the bootstrap script.
Packagings == {"themeInitializer", "getThemeScript", "README"}

\* Bootstrap runs modelled in a row on one page.
MaxBoot == 2

VARIABLES
  variant,      \* the ThemeProvider revision the page uses
  storageMode,  \* how localStorage answers
  store,        \* localStorage['theme']
  prefersDark,  \* matchMedia('(prefers-color-scheme: dark)').matches
  attr,         \* document.documentElement's data-theme attribute
  phase,        \* ThemeProvider: "unmounted", "rendered", "active", "crashed"
  theme,        \* the state the last render read: what consumers see
  pending,      \* the value of the last setTheme not yet rendered, or NULL
  effectPending,\* a passive effect is scheduled and has not run
  uncaught,     \* where uncaught exceptions were raised on this page
  booted,       \* a bootstrap script has run on this page
  bootRuns,     \* bootstrap runs in a row, no other step between them
  script,       \* the packaging of the last bootstrap run
  snaps,        \* theme and attribute before each of the last two toggles
  last,         \* the last step taken
  ssr,          \* what the server's render pass of this page gave, or NULL
  userChose,    \* the store's content goes back to a toggle by the user
  fs,           \* the package's script and the consuming project's public/
  install       \* the last postinstall run: outcome, log line, runs so far

vars == <<variant, storageMode, store, prefersDark, attr, phase, theme, pending,
          effectPending, uncaught, booted, bootRuns, script, snaps, last, ssr,
          userChose, fs, install>>

----------------------------------------------------------------------------
\* JavaScript's truthiness of a string-or-null: null and '' are falsy.
Truthy(v) == v /= NULL /\ v /= ""

\* localStorage.getItem('theme')
getItem(mode, st) == IF mode = "denied" THEN THROWN ELSE st

\* A setItem that loses the value it is given.
setItem_Empty(mode, v) == IF mode = "ok" THEN "" ELSE THROWN

\* localStorage.setItem('theme', v): the new content, or THROWN
setItem(mode, v) == IF mode = "ok" THEN v ELSE THROWN

\* prefersDark ? 'dark' : 'light'
SchemeTheme(matches) == IF matches THEN "dark" ELSE "light"

----------------------------------------------------------------------------
(* The bootstrap script, in its three packagings.  Each operator gives the  *)
(* value the script stamps on the document root, or THROWN when the script  *)
(* ends in an exception before stamping anything.                           *)

\* A bootstrap script that flips the attribute it finds when nothing is
\* stored, instead of asking the media query.
themeInitializer_FlipsAttr(mode, st, matches) ==
  LET stored == getItem(mode, st)
  IN  IF stored = THROWN THEN THROWN
      ELSE IF Truthy(stored) THEN stored
      ELSE IF attr = "dark" THEN "light" ELSE "dark"

\* const theme = localStorage.getItem('theme') ||
\*   (window.matchMedia('(prefers-color-scheme: dark)').matches ? 'dark' : 'light');
themeInitializer(mode, st, matches) ==
  LET stored == getItem(mode, st)
  IN  IF stored = THROWN THEN THROWN
      ELSE IF Truthy(stored) THEN stored
      ELSE SchemeTheme(matches)

\* const storedTheme = localStorage.getItem('theme');
\* const prefersDark = window.matchMedia('(prefers-color-scheme: dark)').matches;
\* const theme = storedTheme || (prefersDark ? 'dark' : 'light');
getThemeScript(mode, st, matches) ==
  LET storedTheme == getItem(mode, st)
      scheme == SchemeTheme(matches)
  IN  IF storedTheme = THROWN THEN THROWN
      ELSE IF Truthy(storedTheme) THEN storedTheme ELSE scheme

\* A README script that accepts only the two themes from the store.
readmeScript_Validating(mode, st, matches) ==
  LET storedTheme == getItem(mode, st)
  IN  IF storedTheme = THROWN THEN THROWN
      ELSE IF storedTheme \in {"light", "dark"} THEN storedTheme
      ELSE IF matches THEN "dark" ELSE "light"

\* const storedTheme = localStorage.getItem('theme');
\* if (storedTheme) { setAttribute('data-theme', storedTheme) }
\* else { const prefersDark = ...; setAttribute('data-theme', prefersDark ? 'dark' : 'light') }
readmeScript(mode, st, matches) ==
  LET storedTheme == getItem(mode, st)
  IN  CASE storedTheme = THROWN -> THROWN
        [] storedTheme /= THROWN /\ Truthy(storedTheme) -> storedTheme
        [] OTHER -> IF matches THEN "dark" ELSE "light"

\* The script of packaging k, run against the page's storage and media query.
RunScript(k, mode, st, matches) ==
  CASE k = "themeInitializer" -> themeInitializer(mode, st, matches)
    [] k = "getThemeScript"   -> getThemeScript(mode, st, matches)
    [] k = "README"           -> readmeScript(mode, st, matches)

----------------------------------------------------------------------------
(* ThemeProvider.                                                           *)

\* A getInitialTheme that asks the media query before the store.
getInitialTheme_SystemFirst(mode, st, matches) ==
  LET storedTheme == getItem(mode, st)
  IN  IF storedTheme = THROWN THEN THROWN
      ELSE IF matches THEN themes.dark
      ELSE IF Truthy(storedTheme) THEN storedTheme
      ELSE themes.light

\* const storedTheme = window.localStorage.getItem('theme');
\* if (storedTheme) return storedTheme;
\* const userPreferedScheme = window.matchMedia(...).matches;
\* return userPreferedScheme ? themes.dark : themes.light;
getInitialTheme(mode, st, matches) ==
  LET storedTheme == getItem(mode, st)
  IN  IF storedTheme = THROWN THEN THROWN
      ELSE IF Truthy(storedTheme) THEN storedTheme
      ELSE IF matches THEN themes.dark ELSE themes.light

\* The argument of useState, evaluated by the first render in the browser,
\* where typeof window !== 'undefined' holds.
\* ThemeContext.js: useState(themes.light)
init_ThemeContext == themes.light

\* part_001: if (typeof window !== 'undefined') return
\*   localStorage.getItem('theme') || (matches ? themes.dark : themes.light);
init_part_001(mode, st, matches) ==
  LET stored == getItem(mode, st)
  IN  IF stored = THROWN THEN THROWN
      ELSE IF Truthy(stored) THEN stored
      ELSE IF matches THEN themes.dark ELSE themes.light

\* part_003: (typeof window !== 'undefined' && localStorage.getItem('theme')) ||
\*   (window.matchMedia(...).matches ? themes.dark : themes.light)
init_part_003(mode, st, matches) ==
  LET stored == getItem(mode, st)
  IN  IF stored = THROWN THEN THROWN
      ELSE IF Truthy(stored) THEN stored
      ELSE IF matches THEN themes.dark ELSE themes.light

useStateInit(v, mode, st, matches) ==
  CASE v = "ThemeContext" -> init_ThemeContext
    [] v = "part_001"     -> init_part_001(mode, st, matches)
    [] v = "part_003"     -> init_part_003(mode, st, matches)

\* The argument of useState evaluated by a render pass on the server, where
\* window, document and localStorage are not defined.
\* ThemeContext.js: useState(themes.light); effects do not run on the server.
server_ThemeContext == themes.light

\* part_001: typeof window !== 'undefined' is false: return themes.light;
server_part_001 == themes.light

\* part_003: (typeof window !== 'undefined' && localStorage.getItem('theme'))
\* is false, so the right operand window.matchMedia(...) is evaluated:
\* ReferenceError, window is not defined.
server_part_003 == THROWN

serverInit(v) ==
  CASE v = "ThemeContext" -> server_ThemeContext
    [] v = "part_001"     -> server_part_001
    [] v = "part_003"     -> server_part_003

\* A toggle with the comparison on the other theme.
newThemeOf_ComparesDark(t) == IF t = themes.dark THEN themes.light ELSE themes.dark

\* const newTheme = theme === themes.light ? themes.dark : themes?.light;
newThemeOf(t) == IF t = themes.light THEN themes.dark ELSE themes.light

\* The last statement of toggleTheme: ThemeContext.js ends in a second
\* setTheme(newTheme); part_001 and part_003 end in
\* localStorage.setItem('theme', newTheme).  The new content of the store,
\* or THROWN.
togglePersist(v, mode, st, newTheme) ==
  IF v = "ThemeContext" THEN st ELSE setItem(mode, newTheme)

\* The snapshots kept: the state before each of the last two toggles.
Keep2(s) == IF Len(s) > 1 THEN <<s[Len(s)]>> ELSE s

----------------------------------------------------------------------------
(* postinstall.js: the copy of scripts/themeScript.js into public/.         *)

\* Postinstall runs modelled on one project.
MaxInstalls == 2

\* The file system postinstall.js sees: whether scripts/themeScript.js is in
\* the package, what process.cwd()/public is, the content of
\* public/react-next-theme-script.js (NULL: no such file, "script": the
\* package's script, "other": anything else), and whether the project
\* directory can be written.
FileSystems ==
  {f \in [pkgScript : BOOLEAN, publicDir : {"absent", "dir", "file"},
          dest : {NULL, "other", "script"}, writable : BOOLEAN] :
     f.publicDir /= "dir" => f.dest = NULL}

\* A project where the script has been copied.
Installed == [pkgScript |-> TRUE, publicDir |-> "dir", dest |-> "script",
              writable |-> TRUE]

NotRun == [outcome |-> "idle", logged |-> FALSE, runs |-> 0, before |-> NULL]

\* if (!existsSync(publicDir)) { mkdirSync(publicDir, { recursive: true }); }
\* Whether the statement raised, and the file system after it.
mkdirIfAbsent(f) ==
  IF f.publicDir /= "absent" THEN [threw |-> FALSE, fs |-> f]
  ELSE IF f.writable
       THEN [threw |-> FALSE, fs |-> [f EXCEPT !.publicDir = "dir", !.dest = NULL]]
  ELSE [threw |-> TRUE, fs |-> f]

\* A copy that refuses to replace an existing file (COPYFILE_EXCL).
copyFileSync_Excl(f) ==
  IF f.pkgScript /\ f.publicDir = "dir" /\ f.writable /\ f.dest = NULL
  THEN [threw |-> FALSE, fs |-> [f EXCEPT !.dest = "script"]]
  ELSE [threw |-> TRUE, fs |-> f]

\* copyFileSync(scriptSrcPath, publicScriptPath): the destination is
\* replaced; ENOENT without the source, ENOTDIR when public is a file,
\* EACCES when it cannot be written.
copyFileSync(f) ==
  IF f.pkgScript /\ f.publicDir = "dir" /\ f.writable
  THEN [threw |-> FALSE, fs |-> [f EXCEPT !.dest = "script"]]
  ELSE [threw |-> TRUE, fs |-> f]

----------------------------------------------------------------------------
Init ==
  /\ variant \in Variants
  /\ storageMode \in StorageModes
  /\ store \in StoreValues
  /\ prefersDark \in BOOLEAN
  /\ attr = NULL
  /\ phase = "unmounted"
  /\ theme = NULL
  /\ pending = NULL
  /\ effectPending = FALSE
  /\ uncaught = {}
  /\ booted = FALSE
  /\ bootRuns = 0
  /\ script = NULL
  /\ snaps = <<>>
  /\ last = "load"
  /\ ssr = NULL
  /\ userChose = (store /= NULL)
  /\ fs = Installed
  /\ install = NotRun

\* The page is loaded again: the document and the React tree start afresh,
\* localStorage stays, the system preference is whatever it is by then.
Reload(p) ==
  /\ last /= "load"
  /\ prefersDark' = p
  /\ attr' = NULL
  /\ phase' = "unmounted"
  /\ theme' = NULL
  /\ pending' = NULL
  /\ effectPending' = FALSE
  /\ uncaught' = {}
  /\ booted' = FALSE
  /\ bootRuns' = 0
  /\ script' = NULL
  /\ snaps' = <<>>
  /\ last' = "load"
  /\ ssr' = NULL
  /\ UNCHANGED <<variant, storageMode, store, userChose, fs, install>>

\* The server renders the page before it reaches the browser: ThemeProvider's
\* useState argument is evaluated without window; an exception fails the
\* render and there is no tree to hydrate.
ServerRender ==
  /\ last = "load"
  /\ ssr = NULL
  /\ LET s == serverInit(variant)
     IN  /\ ssr' = s
         /\ phase' = IF s = THROWN THEN "crashed" ELSE phase
         /\ uncaught' = IF s = THROWN THEN uncaught \cup {"server"} ELSE uncaught
  /\ last' = "server"
  /\ UNCHANGED <<variant, storageMode, store, prefersDark, attr, theme, pending,
                 effectPending, booted, bootRuns, script, snaps, userChose, fs,
                 install>>

\* The bootstrap script of packaging k runs.
Bootstrap(k) ==
  /\ bootRuns < MaxBoot
  /\ LET r == RunScript(k, storageMode, store, prefersDark)
     IN  /\ attr' = IF r = THROWN THEN attr ELSE r
         /\ uncaught' = IF r = THROWN THEN uncaught \cup {"bootstrap"} ELSE uncaught
  /\ booted' = TRUE
  /\ bootRuns' = bootRuns + 1
  /\ script' = k
  /\ snaps' = <<>>
  /\ last' = "bootstrap"
  /\ UNCHANGED <<fs, install, ssr, userChose, variant, storageMode, store, prefersDark, phase, theme, pending,
                 effectPending>>

\* React renders ThemeProvider for the first time: useState takes its
\* argument; an exception in it leaves nothing mounted.
Render ==
  /\ phase = "unmounted"
  /\ LET s == useStateInit(variant, storageMode, store, prefersDark)
     IN  /\ phase' = IF s = THROWN THEN "crashed" ELSE "rendered"
         /\ theme' = IF s = THROWN THEN NULL ELSE s
         /\ effectPending' = (s /= THROWN)
         /\ uncaught' = IF s = THROWN THEN uncaught \cup {"render"} ELSE uncaught
  /\ bootRuns' = 0
  /\ snaps' = <<>>
  /\ last' = "render"
  /\ UNCHANGED <<fs, install, ssr, userChose, variant, storageMode, store, prefersDark, attr, pending, booted,
                 script>>

\* The mount effect of ThemeContext.js (dependencies []):
\*   const initialTheme = getInitialTheme(); setTheme(initialTheme);
\*   document.documentElement.setAttribute('data-theme', initialTheme);
\*   localStorage.setItem('theme', initialTheme);
\* An exception in an effect unmounts the tree.
MountEffect ==
  /\ variant = "ThemeContext"
  /\ effectPending
  /\ LET initialTheme == getInitialTheme(storageMode, store, prefersDark)
         written == setItem(storageMode, initialTheme)
         threw == initialTheme = THROWN \/ written = THROWN
     IN  /\ attr' = IF initialTheme = THROWN THEN attr ELSE initialTheme
         /\ store' = IF threw THEN store ELSE written
         /\ pending' = IF threw THEN NULL ELSE initialTheme
         /\ theme' = IF threw THEN NULL ELSE theme
         /\ phase' = IF threw THEN "crashed" ELSE "active"
         /\ uncaught' = IF threw THEN uncaught \cup {"effect"} ELSE uncaught
  /\ effectPending' = FALSE
  /\ bootRuns' = 0
  /\ snaps' = <<>>
  /\ last' = "effect"
  /\ UNCHANGED <<fs, install, ssr, userChose, variant, storageMode, prefersDark, booted, script>>

\* The effect of part_001 and part_003 (dependencies [theme]):
\*   document.documentElement.setAttribute('data-theme', theme);
ThemeEffect ==
  /\ variant /= "ThemeContext"
  /\ effectPending
  /\ attr' = theme
  /\ phase' = "active"
  /\ effectPending' = FALSE
  /\ bootRuns' = 0
  /\ last' = "effect"
  /\ UNCHANGED <<fs, install, ssr, userChose, variant, storageMode, store, prefersDark, theme, pending, uncaught,
                 booted, script, snaps>>

\* A consumer calls toggleTheme, the function the last render handed out.
Toggle ==
  /\ phase \in {"rendered", "active"}
  /\ LET newTheme == newThemeOf(theme)
         written == togglePersist(variant, storageMode, store, newTheme)
     IN  /\ pending' = newTheme
         /\ attr' = newTheme
         /\ store' = IF written = THROWN THEN store ELSE written
         /\ uncaught' = IF written = THROWN THEN uncaught \cup {"toggle"} ELSE uncaught
  /\ snaps' = IF phase = "active"
              THEN Append(Keep2(snaps),
                          [theme |-> theme, attr |-> attr,
                           settled |-> pending = NULL /\ ~effectPending])
              ELSE <<>>
  /\ userChose' = TRUE
  /\ bootRuns' = 0
  /\ last' = "toggle"
  /\ UNCHANGED <<fs, install, ssr, variant, storageMode, prefersDark, phase, theme, effectPending,
                 booted, script>>

\* React renders again with the queued state; passive effects of the
\* previous render have run by then.  A render that changes theme schedules
\* the [theme] effect of part_001 and part_003.
Rerender ==
  /\ phase \in {"rendered", "active"}
  /\ pending /= NULL
  /\ ~effectPending
  /\ theme' = pending
  /\ pending' = NULL
  /\ effectPending' = (variant /= "ThemeContext" /\ pending /= theme)
  /\ bootRuns' = 0
  /\ last' = "rerender"
  /\ UNCHANGED <<fs, install, ssr, userChose, variant, storageMode, store, prefersDark, attr, phase, uncaught,
                 booted, script, snaps>>

Next ==
  \/ \E p \in BOOLEAN : Reload(p)
  \/ ServerRender
  \/ \E k \in Packagings : Bootstrap(k)
  \/ Render
  \/ MountEffect
  \/ ThemeEffect
  \/ Toggle
  \/ Rerender

Spec == Init /\ [][Next]_vars

\* Code outside the package sets the data-theme attribute:
\*   document.documentElement.setAttribute('data-theme', v)
ExternalSetAttr(v) ==
  /\ attr /= v
  /\ attr' = v
  /\ bootRuns' = 0
  /\ snaps' = <<>>
  /\ last' = "external"
  /\ UNCHANGED <<variant, storageMode, store, prefersDark, phase, theme, pending,
                 effectPending, uncaught, booted, script, ssr, userChose, fs,
                 install>>

NextExt ==
  \/ Next
  \/ \E v \in {themes.light, themes.dark} : ExternalSetAttr(v)

\* The page with other code writing the attribute as well.
SpecExt == Init /\ [][NextExt]_vars

\* postinstall.js runs from top to bottom; an exception ends it before the
\* console.log line.
Postinstall ==
  /\ install.runs < MaxInstalls
  /\ LET made == mkdirIfAbsent(fs)
         copied == IF made.threw THEN made ELSE copyFileSync(made.fs)
     IN  /\ fs' = copied.fs
         /\ install' = [outcome |-> IF copied.threw THEN "failed" ELSE "ok",
                        logged |-> ~copied.threw,
                        runs |-> install.runs + 1,
                        before |-> fs.dest]
  /\ UNCHANGED <<variant, storageMode, store, prefersDark, attr, phase, theme,
                 pending, effectPending, uncaught, booted, bootRuns, script, snaps,
                 last, ssr, userChose>>

\* The project's owner puts another file at the destination.
ProjectWritesDest ==
  /\ fs.publicDir = "dir"
  /\ fs.dest /= "other"
  /\ fs' = [fs EXCEPT !.dest = "other"]
  /\ UNCHANGED <<variant, storageMode, store, prefersDark, attr, phase, theme,
                 pending, effectPending, uncaught, booted, bootRuns, script, snaps,
                 last, ssr, userChose, install>>

\* The project's owner removes public/.
ProjectRemovesPublic ==
  /\ fs.publicDir /= "absent"
  /\ fs' = [fs EXCEPT !.publicDir = "absent", !.dest = NULL]
  /\ UNCHANGED <<variant, storageMode, store, prefersDark, attr, phase, theme,
                 pending, effectPending, uncaught, booted, bootRuns, script, snaps,
                 last, ssr, userChose, install>>

\* The project directory's write permission is changed.
ProjectChangesAccess ==
  /\ fs' = [fs EXCEPT !.writable = ~fs.writable]
  /\ UNCHANGED <<variant, storageMode, store, prefersDark, attr, phase, theme,
                 pending, effectPending, uncaught, booted, bootRuns, script, snaps,
                 last, ssr, userChose, install>>

\* A project before any page is served, in any state of its file system.
InitInstall ==
  /\ variant = "ThemeContext"
  /\ storageMode = "ok"
  /\ store = NULL
  /\ prefersDark = FALSE
  /\ attr = NULL
  /\ phase = "unmounted"
  /\ theme = NULL
  /\ pending = NULL
  /\ effectPending = FALSE
  /\ uncaught = {}
  /\ booted = FALSE
  /\ bootRuns = 0
  /\ script = NULL
  /\ snaps = <<>>
  /\ last = "load"
  /\ ssr = NULL
  /\ userChose = FALSE
  /\ fs \in FileSystems
  /\ install = NotRun

NextInstall ==
  \/ Postinstall
  \/ ProjectWritesDest
  \/ ProjectRemovesPublic
  \/ ProjectChangesAccess

\* npm install in the consuming project.
SpecInstall == InitInstall /\ [][NextInstall]_vars

TypeOK ==
  /\ variant \in Variants
  /\ storageMode \in StorageModes
  /\ store \in StoreValues
  /\ prefersDark \in BOOLEAN
  /\ attr \in StoreValues
  /\ phase \in {"unmounted", "rendered", "active", "crashed"}
  /\ theme \in StoreValues
  /\ pending \in StoreValues
  /\ effectPending \in BOOLEAN
  /\ uncaught \subseteq {"bootstrap", "render", "effect", "toggle", "server"}
  /\ booted \in BOOLEAN
  /\ bootRuns \in 0..MaxBoot
  /\ script \in Packagings \cup {NULL}
  /\ Len(snaps) <= 2
  /\ last \in {"load", "server", "bootstrap", "render", "effect", "toggle", "rerender",
              "external"}
  /\ ssr \in {NULL, THROWN, "light", "dark"}
  /\ userChose \in BOOLEAN
  /\ fs \in FileSystems
  /\ install.runs \in 0..MaxInstalls

----------------------------------------------------------------------------
(* Properties.                                                              *)

\* The resolution order of the specification: the persisted value when it
\* is one of the two themes, else dark when the system prefers dark, else
\* light.
Precedence(st, matches) ==
  IF st \in {"light", "dark"} THEN st
  ELSE IF matches THEN "dark" ELSE "light"

ValidStore == {NULL, "light", "dark"}

\* The in-memory theme once React has rendered what is queued.
NewTheme == IF pending /= NULL THEN pending ELSE theme

\* Nothing is queued and no effect is outstanding.
Settled == pending = NULL /\ ~effectPending

\* A step that resolves the theme (a bootstrap run, the mount effect of
\* ThemeContext.js, the first render of part_001 and part_003) with the
\* store readable and holding a value of S resolves it by Precedence.
ResolutionStep(S) ==
  (storageMode /= "denied" /\ store \in S) =>
    /\ last' = "bootstrap" => attr' = Precedence(store, prefersDark)
    /\ (last' = "effect" /\ variant = "ThemeContext") =>
         /\ attr' = Precedence(store, prefersDark)
         /\ phase' = "active" => pending' = Precedence(store, prefersDark)
    /\ (last' = "render" /\ variant /= "ThemeContext") =>
         theme' = Precedence(store, prefersDark)

\* C1: with the store absent, light or dark, the bootstrap script and the
\* holder's initial resolution yield the persisted value when present, else
\* dark if the system prefers dark, else light.
ThmC1 == [][ResolutionStep(ValidStore)]_vars

\* The store held light, the system prefers dark, and bootstrap and the
\* holder's mount both resolved light.
WitC1 ==
  /\ variant = "ThemeContext" /\ phase = "active" /\ last = "effect"
  /\ booted /\ prefersDark
  /\ store = "light" /\ attr = "light" /\ pending = "light"

\* C2: a persisted value that is neither light nor dark is treated as
\* absent: resolution gives dark iff the system prefers dark, light
\* otherwise.
ClaimC2 == [][ResolutionStep(StoreValues \ ValidStore)]_vars

\* C3: after a toggle on a mounted holder (storage working) the store
\* holds the new in-memory theme, and a fresh bootstrap run or a fresh
\* holder resolve that value whatever the system preference is.
ClaimC3 ==
  (phase = "active" /\ Len(snaps) > 0 /\ storageMode = "ok") =>
    /\ store = NewTheme
    /\ \A p \in BOOLEAN :
         /\ \A k \in Packagings : RunScript(k, storageMode, store, p) = NewTheme
         /\ getInitialTheme(storageMode, store, p) = NewTheme

\* C4: two toggles on a mounted holder, each called once React has
\* rendered the state before it, bring the in-memory theme and the
\* data-theme attribute back to what they were before the first.
ClaimC4 ==
  (phase = "active" /\ Len(snaps) = 2 /\ snaps[1].settled /\ snaps[2].settled
     /\ Settled) =>
    /\ theme = snaps[1].theme
    /\ attr = snaps[1].attr

\* C5: once bootstrap has stamped the document, the data-theme attribute
\* equals the theme consumers read from the holder whenever the holder is
\* mounted.
ClaimC5 ==
  (phase \in {"rendered", "active"} /\ booted /\ uncaught = {}) => attr = theme

\* C6: the in-memory theme and the data-theme attribute hold light or dark
\* and nothing else, and toggle moves a mounted holder to the other theme.
ClaimC6 ==
  /\ attr \in {NULL, "light", "dark"}
  /\ theme \in {NULL, "light", "dark"}
  /\ pending \in {NULL, "light", "dark"}
  /\ phase \in {"rendered", "active"} =>
       (ENABLED Toggle /\ newThemeOf(theme) /= theme)

\* C7: the theme the holder exposes at its first render equals the value
\* bootstrap stamped on the document, the store and system preference
\* being the same for both.
ClaimC7 ==
  (last = "render" /\ phase = "rendered" /\ booted /\ "bootstrap" \notin uncaught)
    => theme = attr

\* A step stamps the document as a script computing r does: r on the
\* attribute, or nothing and an uncaught exception.
StampsAs(r) ==
  IF r = THROWN THEN attr' = attr /\ uncaught' /= {}
  ELSE attr' = r

\* C8: whichever packaging of the bootstrap script runs, it stamps what
\* every other packaging and getInitialTheme compute from the same store
\* and system preference, and the holder's mount stamps that value too.
ThmC8 ==
  [][(last' = "bootstrap" \/ (last' = "effect" /\ variant = "ThemeContext")) =>
       /\ \A k \in Packagings : StampsAs(RunScript(k, storageMode, store, prefersDark))
       /\ StampsAs(getInitialTheme(storageMode, store, prefersDark))]_vars

\* The README script ran on a store holding a foreign string and stamped
\* it, as the other packagings do.
WitC8 ==
  /\ last = "bootstrap" /\ script = "README"
  /\ store = "blue" /\ attr = "blue"
  /\ themeInitializer(storageMode, store, prefersDark) = "blue"

\* C9: a bootstrap run directly after a bootstrap run changes neither the
\* data-theme attribute nor the store.
ThmC9 ==
  [][(last = "bootstrap" /\ last' = "bootstrap") =>
       (attr' = attr /\ store' = store)]_vars

\* Bootstrap has run twice in a row on an empty store under a dark system
\* preference.
WitC9 ==
  /\ last = "bootstrap" /\ bootRuns = 2
  /\ store = NULL /\ prefersDark /\ attr = "dark"

\* C10: when reading the store throws, a bootstrap run raises nothing and
\* stamps the system preference or leaves the attribute alone.
ClaimC10 ==
  [][(last' = "bootstrap" /\ storageMode = "denied") =>
       /\ "bootstrap" \notin uncaught'
       /\ (attr' = SchemeTheme(prefersDark) \/ attr' = attr)]_vars

\* C11: a render pass without window, document or storage does not throw
\* and gives the theme light; when the holder then becomes active in the
\* browser (no toggle queued meanwhile), the in-memory theme and the
\* data-theme attribute are the value resolved from store and preference.
ClaimC11 ==
  [][/\ last' = "server" => (ssr' = "light" /\ "server" \notin uncaught')
     /\ (ssr /= NULL /\ last' = "effect" /\ phase = "rendered" /\ phase' = "active"
           /\ pending = NULL) =>
          LET inMemory == IF pending' /= NULL THEN pending' ELSE theme'
          IN  /\ attr' = inMemory
              /\ inMemory = getInitialTheme(storageMode, store, prefersDark)]_vars

\* C12: the store changes only in a toggle (or a bootstrap run), never when
\* the holder mounts, and a stored value is never removed.
ClaimC12 ==
  [][/\ store' /= store => last' \in {"toggle", "bootstrap"}
     /\ store /= NULL => store' /= NULL]_vars

\* C13: when the store write of a toggle throws, the new theme is queued
\* and on the attribute all the same, and nothing is raised out of toggle.
ClaimC13 ==
  [][(last' = "toggle"
        /\ togglePersist(variant, storageMode, store, newThemeOf(theme)) = THROWN) =>
       /\ pending' = newThemeOf(theme)
       /\ attr' = newThemeOf(theme)
       /\ "toggle" \notin uncaught']_vars

\* C16: every toggle call on a mounted holder queues the negation of the
\* in-memory value the previous call left, also when that value has not
\* been rendered yet, and stamps it on the attribute.
ClaimC16 ==
  [][(last' = "toggle" /\ phase = "active" /\ (Settled \/ last = "toggle")) =>
       /\ pending' \in {"light", "dark"}
       /\ pending' /= NewTheme
       /\ attr' = pending']_vars

\* C17: once bootstrap has run, the data-theme attribute is what the
\* resolution order yields from the current store and system preference.
ClaimC17 ==
  (booted /\ "bootstrap" \notin uncaught) => attr = Precedence(store, prefersDark)

\* C18: while the user has never toggled, a page that has bootstrapped and
\* whose holder is active and settled shows the system preference of this
\* load.
ClaimC18 ==
  (~userChose /\ booted /\ uncaught = {} /\ phase = "active" /\ Settled) =>
    /\ attr = SchemeTheme(prefersDark)
    /\ theme = SchemeTheme(prefersDark)

\* C19: in ThemeContext.js a mount effect that completes puts the value
\* resolved from store and system preference on the attribute, in the
\* store and in the queue, and the render that follows it leaves theme,
\* attribute and store equal, the store holding a value.
ThmC19 ==
  [][/\ (variant = "ThemeContext" /\ last' = "effect" /\ phase' = "active") =>
          LET resolved == IF store \notin {NULL, ""} THEN store
                          ELSE SchemeTheme(prefersDark)
          IN  attr' = resolved /\ store' = resolved /\ pending' = resolved
     /\ (variant = "ThemeContext" /\ last = "effect" /\ last' = "rerender") =>
          /\ theme' = pending
          /\ attr' = theme' /\ store' = theme'
          /\ store' /= NULL]_vars

\* The store was empty, the user never toggled, and after the mount effect
\* and its render the store, the attribute and the theme are all dark.
WitC19 ==
  /\ variant = "ThemeContext" /\ phase = "active" /\ last = "rerender"
  /\ ~userChose /\ prefersDark
  /\ store = "dark" /\ attr = "dark" /\ theme = "dark"

\* C20: a toggle always queues light or dark and stamps it, a toggle from
\* an in-memory theme that is neither queues light, and the render after a
\* toggle leaves the theme light or dark.
ThmC20 ==
  [][/\ last' = "toggle" =>
          /\ pending' \in {"light", "dark"}
          /\ attr' = pending'
          /\ theme \notin {"light", "dark"} => pending' = "light"
     /\ (last = "toggle" /\ last' = "rerender") => theme' \in {"light", "dark"}]_vars

\* The holder had taken blue over from the store; the toggle queued light
\* and stamped it.
WitC20 ==
  /\ phase = "active" /\ last = "toggle"
  /\ theme = "blue" /\ pending = "light" /\ attr = "light"

\* C15: the effect that makes the holder active stamps the in-memory value
\* on the attribute, and so does every change of the in-memory theme: when
\* a render changes theme, either a reconciliation effect is scheduled or
\* the attribute already equals the new theme, whatever other code wrote
\* to the attribute before.
ClaimC15 ==
  [][/\ (last' = "effect" /\ phase' = "active") =>
          (attr' = theme' \/ attr' = pending')
     /\ (last' = "rerender" /\ theme' /= theme) =>
          (effectPending' \/ attr' = theme')]_vars

\* C14: a postinstall run that completes leaves public/ a directory and
\* public/react-next-theme-script.js with the package's script, whatever
\* was there before, and says so; it completes whenever the source exists
\* and the project can be written; otherwise it fails before its log line.
ThmC14 ==
  [][(install'.runs = install.runs + 1) =>
       LET canCopy == fs.pkgScript /\ fs.writable /\ fs.publicDir /= "file"
       IN  /\ install'.outcome = "ok" =>
                (fs'.publicDir = "dir" /\ fs'.dest = "script" /\ install'.logged)
           /\ canCopy => install'.outcome = "ok"
           /\ ~canCopy => (install'.outcome = "failed" /\ ~install'.logged
                           /\ fs'.dest = fs.dest)]_vars

\* A run replaced another file at the destination by the package's script.
WitC14 ==
  /\ install.outcome = "ok" /\ install.logged
  /\ install.before = "other" /\ fs.dest = "script"

====
